---- MODULE Spec2Model ----
(***************************************************************************)
(* A model of the label harvester: the JSON-RPC client (mcp_client.py),    *)
(* the mock MCP server (mock_mcp_server.py) and the harvester with its     *)
(* export query builder (harvest.py).                                      *)
(*                                                                         *)
(* Text is modelled by TLA+ strings, on which Len, SubSeq and \o work      *)
(* character by character.  A JSON document is modelled by its tree: a     *)
(* record tagged by "t", so that a dict, a list, a string, a number and    *)
(* None stay distinguishable the way Python's isinstance distinguishes     *)
(* them.                                                                   *)
(***************************************************************************)
EXTENDS Integers, Sequences, FiniteSets, TLC

VARIABLES
    request,    \* mock server: the body of the POST being handled
    response,   \* mock server: what the handler left on the connection
    args,       \* harvester: the parsed command line
    endpoint,   \* harvester: what listens at --mcp-url
    document,   \* harvester: the --mapping file
    pc,         \* harvester: position in main()
    labels,     \* harvester: labels the for loop has still to process
    mapping,    \* harvester: main()'s local `mapping`
    results,    \* harvester: main()'s local `results`
    calls,      \* harvester: the requests sent so far, in order
    reply,      \* harvester: what the last request got from the endpoint
    outcome,    \* harvester: what _rpc made of that reply
    exc,        \* harvester: the exception that ended main(), if any
    artifact,   \* harvester: the --out file
    events,     \* search backend: the rows the base search yields
    rules,      \* search backend: the rules the export query was built from
    cap,        \* search backend: the --n the export query was built with
    stages,     \* search backend: the commands of the query still to run
    ran,        \* search backend: the command run last
    before,     \* search backend: the rows that command was given
    rows        \* search backend: the rows it gave

vars == <<request, response, args, endpoint, document, pc, labels, mapping,
          results, calls, reply, outcome, exc, artifact, events, rules, cap,
          stages, ran, before, rows>>

serverVars == <<request, response>>
harvestVars == <<args, endpoint, document, pc, labels, mapping, results, calls,
                 reply, outcome, exc, artifact>>
backendVars == <<events, rules, cap, stages, ran, before, rows>>

----------------------------------------------------------------------------
(* Python text operations *)

UpperLetters == "ABCDEFGHIJKLMNOPQRSTUVWXYZ"
LowerLetters == "abcdefghijklmnopqrstuvwxyz"

CharAt(s, i) == SubSeq(s, i, i)

\* str.lower() on one character
LowerChar(c) ==
    IF \E i \in 1..Len(UpperLetters) : CharAt(UpperLetters, i) = c
    THEN LET i == CHOOSE j \in 1..Len(UpperLetters) : CharAt(UpperLetters, j) = c
         IN  CharAt(LowerLetters, i)
    ELSE c

\* str.lower(), one character at a time
RECURSIVE Lower(_)
Lower(s) ==
    IF Len(s) = 0 THEN ""
    ELSE IF Len(s) = 1 THEN LowerChar(s)
    ELSE LET half == Len(s) \div 2
         IN  Lower(SubSeq(s, 1, half)) \o Lower(SubSeq(s, half + 1, Len(s)))

\* `p in s` for strings
Contains(p, s) ==
    \E i \in 1..(Len(s) - Len(p) + 1) : SubSeq(s, i, i + Len(p) - 1) = p

IsSpace(c) == c \in {" ", "\n", "\t", "\r"}

RECURSIVE LStrip(_)
LStrip(s) ==
    IF Len(s) > 0 /\ IsSpace(CharAt(s, 1)) THEN LStrip(SubSeq(s, 2, Len(s))) ELSE s

RECURSIVE RStrip(_)
RStrip(s) ==
    IF Len(s) > 0 /\ IsSpace(CharAt(s, Len(s)))
    THEN RStrip(SubSeq(s, 1, Len(s) - 1)) ELSE s

\* str.strip()
Strip(s) == RStrip(LStrip(s))

Digits == "0123456789"

RECURSIVE NatStr(_)
NatStr(n) ==
    IF n < 10 THEN CharAt(Digits, n + 1)
    ELSE NatStr(n \div 10) \o CharAt(Digits, (n % 10) + 1)

\* f"{n}" for an int
IntStr(n) == IF n < 0 THEN "-" \o NatStr(-n) ELSE NatStr(n)

\* sep.join(parts)
RECURSIVE Join(_, _)
Join(sep, parts) ==
    IF Len(parts) = 0 THEN ""
    ELSE IF Len(parts) = 1 THEN parts[1]
    ELSE parts[1] \o sep \o Join(sep, Tail(parts))

----------------------------------------------------------------------------
(* JSON documents and the Python operations the code applies to them *)

None == [t |-> "null"]
Str(s) == [t |-> "str", s |-> s]
Num(n) == [t |-> "num", n |-> n]
List(a) == [t |-> "list", a |-> a]
Dict(m) == [t |-> "dict", m |-> m]
EmptyDict == Dict(<<>>)

IsDict(v) == v.t = "dict"
IsStr(v) == v.t = "str"

\* `key in d` for a dict d
HasKey(d, key) == key \in DOMAIN d.m

\* d.get(key, default) for a dict d
GetOr(d, key, default) == IF HasKey(d, key) THEN d.m[key] ELSE default

\* d.get(key) for a dict d
Get(d, key) == GetOr(d, key, None)

\* bool(v)
Truthy(v) ==
    CASE v.t = "null" -> FALSE
      [] v.t = "str"  -> Len(v.s) > 0
      [] v.t = "num"  -> v.n # 0
      [] v.t = "list" -> Len(v.a) > 0
      [] v.t = "dict" -> DOMAIN v.m # {}

\* `v or default`
OrElse(v, default) == IF Truthy(v) THEN v ELSE default

\* f"{v}" for the values a tool name or a method may be
PyStr(v) ==
    CASE v.t = "null" -> "None"
      [] v.t = "str"  -> v.s
      [] v.t = "num"  -> IntStr(v.n)
      [] v.t = "list" -> "[]"
      [] v.t = "dict" -> "{}"

----------------------------------------------------------------------------
(* mock_mcp_server.py *)

RegisteredTool == "run_splunk_query"
InvalidParams == -32602
MethodNotFound == -32601
HttpOk == 200
HttpBadRequest == 400

jsonrpc_result(req_id, result) ==
    Dict([jsonrpc |-> Str("2.0"), id |-> req_id, result |-> result])

jsonrpc_error(req_id, code, message) ==
    Dict([jsonrpc |-> Str("2.0"), id |-> req_id,
          error |-> Dict([code |-> Num(code), message |-> Str(message)])])

FieldSummaryRow(f, n, top) ==
    Dict([field |-> Str(f), distinct_values |-> Num(n),
          top_values |-> List(<<Str(top[1]), Str(top[2]), Str(top[3])>>)])

FieldSummaryRows ==
    Dict([type |-> Str("splunk_query_result"), query_kind |-> Str("fieldsummary"),
          rows |-> List(<<
              FieldSummaryRow("mitre_tactic", 3,
                  <<"command-and-control", "exfiltration", "lateral-movement">>),
              FieldSummaryRow("rule_name", 12,
                  <<"C2 Beaconing", "Suspicious RDP", "Large Data Transfer">>),
              FieldSummaryRow("severity", 3, <<"low", "medium", "high">>) >>),
          meta |-> Dict([note |-> Str("Mock fieldsummary response")])])

DiscoveryRow(time, rule, tactic, severity) ==
    Dict([_time |-> Str(time), rule_name |-> Str(rule),
          mitre_tactic |-> Str(tactic), severity |-> Str(severity)])

DiscoveryRows ==
    Dict([type |-> Str("splunk_query_result"), query_kind |-> Str("discovery_probe"),
          rows |-> List(<<
              DiscoveryRow("2026-01-20T18:42:10Z", "C2 Beaconing",
                           "command-and-control", "high"),
              DiscoveryRow("2026-01-20T19:05:44Z", "Suspicious RDP",
                           "lateral-movement", "medium") >>),
          meta |-> Dict([note |-> Str("Mock discovery results")])])

ExportRow(time, label, rule, severity, src, dest, user, host, signature) ==
    Dict([_time |-> Str(time), label |-> Str(label), rule_name |-> Str(rule),
          severity |-> Str(severity), src |-> Str(src), dest |-> Str(dest),
          user |-> Str(user), host |-> Str(host), signature |-> Str(signature)])

ExportRows ==
    Dict([type |-> Str("splunk_query_result"), query_kind |-> Str("export"),
          rows |-> List(<<
              ExportRow("2026-01-19T03:10:21Z", "C2", "C2 Beaconing", "high",
                        "10.0.1.10", "198.51.100.22", "alice", "host-a",
                        "beaconing-interval"),
              ExportRow("2026-01-18T22:41:09Z", "EXFIL", "Large Data Transfer", "high",
                        "10.0.2.15", "203.0.113.9", "bob", "host-b",
                        "bytes-out-threshold"),
              ExportRow("2026-01-18T19:02:55Z", "LATERAL", "Suspicious RDP", "medium",
                        "10.0.3.7", "10.0.4.8", "carol", "host-c",
                        "rdp-admin-share") >>),
          meta |-> Dict([note |-> Str("Mock export rows (not actually filtered)")])])

\* The canned response with the discovery probe tested first.
RowsForLoweredProbeFirst(q) ==
    IF Contains("index=notable", q) /\ Contains("head 5", q) THEN DiscoveryRows
    ELSE IF Contains("fieldsummary", q) THEN FieldSummaryRows
    ELSE ExportRows

\* The canned response for a query text q, already lower-cased.
RowsForLowered(q) ==
    IF Contains("fieldsummary", q) THEN FieldSummaryRows
    ELSE IF Contains("index=notable", q) /\ Contains("head 5", q) THEN DiscoveryRows
    ELSE ExportRows

\* fake_splunk_rows_for_query raises AttributeError on a truthy query that
\* is not a str: it has no lower().
QueryRaises(query) == Truthy(query) /\ ~IsStr(query)

fake_splunk_rows_for_query(query) ==
    RowsForLowered(Lower(OrElse(query, Str("")).s))

\* What the handler leaves on the connection: a response it sent, or, when
\* an exception escaped do_POST, nothing.
Sent(status, body) == [sent |-> TRUE, status |-> status, body |-> body]
Unanswered(error) == [sent |-> FALSE, raised |-> error]

\* The request body as the handler reads it (lines 96-98): the
\* Content-Length header may not be an integer, the bytes may not be UTF-8,
\* the text may be empty, may not be JSON, or is a JSON document.
ParseFails(raw) == raw.framing \in {"bad_content_length", "bad_utf8", "not_json"}
Parsed(raw) == IF raw.framing = "empty" THEN EmptyDict ELSE raw.doc

ToolsList ==
    Dict([tools |-> List(<<
        Dict([name |-> Str(RegisteredTool),
              description |-> Str("Mock: execute SPL and return rows"),
              inputSchema |-> Dict([
                  type |-> Str("object"),
                  properties |-> Dict([query |-> Dict([type |-> Str("string")])]),
                  required |-> List(<<Str("query")>>)])]) >>)])

\* tools/call without the check of params.name.
ToolsCallAnyName(req_id, params) ==
    LET arguments == OrElse(Get(params, "arguments"), EmptyDict)
    IN  IF ~IsDict(arguments) THEN Unanswered("AttributeError")
        ELSE LET query == GetOr(arguments, "query", Str(""))
             IN  IF QueryRaises(query) THEN Unanswered("AttributeError")
                 ELSE Sent(HttpOk,
                           jsonrpc_result(req_id, fake_splunk_rows_for_query(query)))

ToolsCall(req_id, params) ==
    LET name == Get(params, "name")
        arguments == OrElse(Get(params, "arguments"), EmptyDict)
    IN  IF name # Str(RegisteredTool)
        THEN Sent(HttpOk, jsonrpc_error(req_id, InvalidParams,
                                        "Unknown tool: " \o PyStr(name)))
        ELSE IF ~IsDict(arguments) THEN Unanswered("AttributeError")
        ELSE LET query == GetOr(arguments, "query", Str(""))
             IN  IF QueryRaises(query) THEN Unanswered("AttributeError")
                 ELSE Sent(HttpOk,
                           jsonrpc_result(req_id, fake_splunk_rows_for_query(query)))

do_POST(raw) ==
    IF ParseFails(raw)
    THEN Sent(HttpBadRequest, Dict([error |-> Str("Invalid JSON: " \o raw.framing)]))
    ELSE LET req == Parsed(raw) IN
         IF ~IsDict(req) THEN Unanswered("AttributeError")
         ELSE LET req_id == Get(req, "id")
                  method == Get(req, "method")
                  params == OrElse(Get(req, "params"), EmptyDict)
              IN  IF method = Str("tools/list")
                  THEN Sent(HttpOk, jsonrpc_result(req_id, ToolsList))
                  ELSE IF method = Str("tools/call")
                  THEN IF ~IsDict(params) THEN Unanswered("AttributeError")
                       ELSE ToolsCall(req_id, params)
                  ELSE Sent(HttpOk, jsonrpc_error(req_id, MethodNotFound,
                                        "Method not found: " \o PyStr(method)))

----------------------------------------------------------------------------
(* harvest.py: the export query builder *)

DEFAULT_DISCOVERY_SPL ==
    Strip("\n(index=notable earliest=-30d | head 5) OR (sourcetype=notable earliest=-30d | head 5)\n")

DefaultBaseSearch == "index=notable earliest=-90d"
DefaultN == 100
DefaultTool == "run_splunk_query"

\* r["field"] or r["values"] raises KeyError when the key is missing.
RuleRaises(r) == ~HasKey(r, "field") \/ ~HasKey(r, "values")

\* quoted = ",".join([f"\"{v}\"" for v in vals])
Quoted(vals) ==
    Join(",", [i \in 1..Len(vals.a) |-> "\"" \o PyStr(vals.a[i]) \o "\""])

\* f'{field} IN ({quoted})'
WhereClause(r) == PyStr(r.m.field) \o " IN (" \o Quoted(r.m.values) \o ")"

\* where_expr, lines 18-25, for a list of rules none of which raises
WhereExpr(rs) ==
    IF Len(rs) > 0
    THEN Join(" OR ", [i \in 1..Len(rs) |-> "(" \o WhereClause(rs[i]) \o ")"])
    ELSE "true()"

\* The commands with the dedup before the sort.
ExportPipelineDedupFirst(label, rs, n) ==
    << [cmd |-> "eval",  label |-> label],
       [cmd |-> "where", rules |-> rs],
       [cmd |-> "dedup"],
       [cmd |-> "sort"],
       [cmd |-> "head",  n |-> n],
       [cmd |-> "table"] >>

\* The commands with the head before the dedup.
ExportPipelineHeadFirst(label, rs, n) ==
    << [cmd |-> "eval",  label |-> label],
       [cmd |-> "where", rules |-> rs],
       [cmd |-> "sort"],
       [cmd |-> "head",  n |-> n],
       [cmd |-> "dedup"],
       [cmd |-> "table"] >>

\* The commands appended to the base search, in the order of lines 29-34.
ExportPipeline(label, rs, n) ==
    << [cmd |-> "eval",  label |-> label],
       [cmd |-> "where", rules |-> rs],
       [cmd |-> "sort"],
       [cmd |-> "dedup"],
       [cmd |-> "head",  n |-> n],
       [cmd |-> "table"] >>

\* The text of one command, as the template of lines 29-34 writes it.
CommandText(st) ==
    CASE st.cmd = "eval"  -> "| eval label=\"" \o st.label \o "\""
      [] st.cmd = "where" -> "| where " \o WhereExpr(st.rules)
      [] st.cmd = "sort"  -> "| sort 0 - _time"
      [] st.cmd = "dedup" -> "| dedup rule_name, src, dest, label"
      [] st.cmd = "head"  -> "| head " \o IntStr(st.n)
      [] st.cmd = "table" ->
            "| table _time label rule_name severity src dest user host signature"

BuildRaises(rs) == \E i \in 1..Len(rs) : RuleRaises(rs[i])

build_export_spl(base_search, label, rs, n) ==
    LET pipeline == ExportPipeline(label, rs, n)
    IN  Strip("\n" \o base_search \o "\n"
              \o Join("\n", [i \in 1..Len(pipeline) |-> CommandText(pipeline[i])])
              \o "\n")

----------------------------------------------------------------------------
(* mcp_client.py *)

\* What the HTTP exchange of line 31 gives the client: a response that was
\* sent, or none (connection refused or dropped, timeout).  The body of a
\* response that is not JSON text is Garbage.
Garbage == [t |-> "garbage"]

Payload(id, method, params) ==
    Dict([jsonrpc |-> Str("2.0"), id |-> Str(id), method |-> Str(method),
          params |-> OrElse(params, EmptyDict)])

Raise(error, detail) == [raised |-> TRUE, error |-> error, detail |-> detail]
Return(value) == [raised |-> FALSE, value |-> value]

\* raise_for_status() passes the 2xx responses only
IsSuccess(status) == 200 <= status /\ status <= 299

\* _rpc from the reply on (lines 31-37).  The RuntimeError's text is
\* f"RPC error: {data['error']}": it carries the error member.
_rpc(got) ==
    IF ~got.sent THEN Raise("TransportError", None)
    ELSE IF ~IsSuccess(got.status) THEN Raise("HTTPStatusError", Num(got.status))
    ELSE IF got.body = Garbage THEN Raise("JSONDecodeError", None)
    ELSE LET data == got.body IN
         IF IsDict(data) /\ HasKey(data, "error")
         THEN Raise("RuntimeError", data.m.error)
         ELSE Return(IF IsDict(data) THEN Get(data, "result") ELSE data)

list_tools_payload(id) == Payload(id, "tools/list", None)

call_tool_payload(id, name, arguments) ==
    Payload(id, "tools/call", Dict([name |-> Str(name), arguments |-> arguments]))

----------------------------------------------------------------------------
(* The mock server, serving one POST after another *)

Idle == "-"

NoRequest == [framing |-> "none"]

QueryFragments ==
    {"fieldsummary", "FieldSummary", "index=notable", "INDEX=Notable",
     "head 5", "Head 5", "head", " | ", "Index=Notable | HEAD 5"}

MaxFragments == 2

\* Query texts: up to MaxFragments fragments, one after the other.
Queries ==
    {Join("", fs) : fs \in UNION {[1..k -> QueryFragments] : k \in 0..MaxFragments}}

QueryValues == {Str(q) : q \in Queries} \cup {None, Num(0), Num(5)}

ArgumentsValues ==
    {None, EmptyDict, Str("index=notable"), List(<<Str("head 5")>>)}
    \cup {Dict([query |-> q]) : q \in QueryValues}

NameValues == {None, Str(RegisteredTool), Str("delete_index"), Str(""), Num(7)}

ParamsValues ==
    {None, EmptyDict, List(<<>>), List(<<Str(RegisteredTool)>>), Str("run")}
    \cup {Dict([arguments |-> a]) : a \in {EmptyDict, Dict([query |-> Str("head 5")])}}
    \cup {Dict([name |-> nm]) : nm \in NameValues}
    \cup {Dict([name |-> nm, arguments |-> a]) : nm \in NameValues, a \in ArgumentsValues}

MethodValues == {Str("tools/list"), Str("tools/call"), Str("resources/list"), None}

RequestObjects ==
    {EmptyDict, Dict([id |-> Str("1")])}
    \cup {Dict([id |-> Str("1"), method |-> me]) : me \in MethodValues}
    \cup {Dict([method |-> me, params |-> pa]) : me \in MethodValues, pa \in ParamsValues}
    \cup {Dict([id |-> Str("1"), method |-> me, params |-> pa]) :
             me \in MethodValues, pa \in ParamsValues}

RawBodies ==
    {[framing |-> f] : f \in {"bad_content_length", "bad_utf8", "not_json", "empty"}}
    \cup {[framing |-> "json", doc |-> d] :
             d \in RequestObjects \cup {None, Num(1), Str("tools/list"), List(<<>>),
                                        List(<<Dict([method |-> Str("tools/list")])>>)}}

InitServer ==
    /\ request = NoRequest
    /\ response = Unanswered("none")
    /\ args = Idle /\ endpoint = Idle /\ document = Idle /\ pc = Idle
    /\ labels = Idle /\ mapping = Idle /\ results = Idle /\ calls = Idle
    /\ reply = Idle /\ outcome = Idle /\ exc = Idle /\ artifact = Idle
    /\ events = Idle /\ rules = Idle /\ cap = Idle /\ stages = Idle
    /\ ran = Idle /\ before = Idle /\ rows = Idle

\* One POST on a fresh connection, handled from the request line to the
\* response (do_POST).  HTTPServer creates one Handler per connection.
Handle(raw) ==
    /\ request' = raw
    /\ response' = do_POST(raw)
    /\ UNCHANGED <<harvestVars, backendVars>>

\* The connection is closed and the server accepts the next one; nothing of
\* the request is kept.
Finish ==
    /\ request # NoRequest
    /\ request' = NoRequest
    /\ response' = Unanswered("none")
    /\ UNCHANGED <<harvestVars, backendVars>>

\* The server accepts a connection only when it handles none: serve_forever
\* handles one request at a time.
Accept ==
    /\ request = NoRequest
    /\ \E raw \in RawBodies : Handle(raw)

NextServer == Accept \/ Finish

SpecServer == InitServer /\ [][NextServer]_vars

----------------------------------------------------------------------------
(* harvest.py: main() *)

Labels == <<"C2", "EXFIL", "LATERAL">>

\* --tool and --n as the command line may give them; --base-search,
\* --discovery-spl keep their defaults.
Tools == {DefaultTool, "search"}
Caps == {1, 5, DefaultN}

Args ==
    {[tool |-> t, n |-> n, base_search |-> DefaultBaseSearch,
      discovery_spl |-> DEFAULT_DISCOVERY_SPL] : t \in Tools, n \in Caps}

\* Rules of a mapping document: well formed, with no values, and missing
\* one of the two keys.
Beaconing == Dict([field |-> Str("rule_name"), values |-> List(<<Str("C2 Beaconing")>>)])
Tactics == Dict([field |-> Str("mitre_tactic"),
                 values |-> List(<<Str("exfiltration"), Str("lateral-movement")>>)])
NoValues == Dict([field |-> Str("severity"), values |-> List(<<>>)])
MissingValues == Dict([field |-> Str("rule_name")])
MissingField == Dict([values |-> List(<<Str("high")>>)])

RuleLists ==
    {<<>>, <<Beaconing>>, <<Beaconing, NoValues>>, <<MissingValues>>,
     <<Tactics, MissingField>>}

\* A mapping document gives some of the labels a list of rules.
MappingDocuments ==
    UNION {[present -> {List(rs) : rs \in RuleLists}] :
              present \in SUBSET {"C2", "EXFIL", "LATERAL"}}

Documents ==
    {[framing |-> "missing"], [framing |-> "not_json"],
     [framing |-> "json", doc |-> List(<<>>)]}
    \cup {[framing |-> "json", doc |-> Dict(m)] : m \in MappingDocuments}

\* What a server other than the mock may leave on the connection.
OtherResult == Dict([type |-> Str("splunk_query_result"), rows |-> List(<<>>)])
OtherError == Dict([code |-> Num(-32000), message |-> Str("Server error")])

OtherReplies ==
    {Unanswered("ConnectError"), Unanswered("ReadTimeout"),
     Sent(500, Garbage), Sent(200, Garbage),
     Sent(200, Dict([jsonrpc |-> Str("2.0"), id |-> None, result |-> OtherResult])),
     Sent(200, Dict([jsonrpc |-> Str("2.0"), id |-> None, error |-> OtherError])),
     Sent(200, Dict([jsonrpc |-> Str("2.0"), id |-> None, result |-> OtherResult,
                     error |-> OtherError])),
     Sent(200, Dict([jsonrpc |-> Str("2.0"), id |-> None])),
     Sent(200, List(<<OtherResult>>))}

\* The replies the endpoint may give to a request.
Replies(payload) ==
    IF endpoint = "mock"
    THEN {do_POST([framing |-> "json", doc |-> payload])}
    ELSE OtherReplies

\* str(uuid.uuid4()): an id no earlier request of the run carries
FreshId == "uuid-" \o IntStr(Len(calls) + 1)

NoReply == [sent |-> FALSE, raised |-> "none"]
NoOutcome == [raised |-> FALSE]
NotRaised == [raised |-> FALSE]
NotWritten == [written |-> FALSE]
Written(content) == [written |-> TRUE, content |-> content]

\* The exception is caught and main() goes on to write what it has.
AbortAndWrite(e) ==
    /\ pc' = "write"
    /\ exc' = e
    /\ UNCHANGED <<labels, mapping, results, artifact>>

\* An exception leaves main(): nothing in main() catches it.
Abort(e) ==
    /\ pc' = "raised"
    /\ exc' = e
    /\ UNCHANGED <<labels, mapping, results, artifact>>

Init ==
    /\ args \in Args
    /\ endpoint \in {"mock", "other"}
    /\ document \in Documents
    /\ pc = "list_tools"
    /\ labels = Labels
    /\ mapping = None
    /\ results = <<>>
    /\ calls = <<>>
    /\ reply = NoReply
    /\ outcome = NoOutcome
    /\ exc = NotRaised
    /\ artifact = NotWritten
    /\ request = Idle /\ response = Idle
    /\ events = Idle /\ rules = Idle /\ cap = Idle /\ stages = Idle
    /\ ran = Idle /\ before = Idle /\ rows = Idle

\* tool_names = [t.get("name") for t in tools.get("tools", [])] raises
\* AttributeError when tools, or an entry of its list, is no dict.
ToolNamesRaise(tools) ==
    \/ ~IsDict(tools)
    \/ LET listed == GetOr(tools, "tools", List(<<>>))
       IN  \/ listed.t # "list"
           \/ \E i \in 1..Len(listed.a) : ~IsDict(listed.a[i])

\* lines 56-58
ListTools ==
    /\ pc = "list_tools"
    /\ LET payload == list_tools_payload(FreshId) IN
       /\ calls' = Append(calls, payload)
       /\ \E r \in Replies(payload) :
            LET out == _rpc(r) IN
            /\ reply' = r
            /\ outcome' = out
            /\ IF out.raised THEN Abort(out)
               ELSE IF ToolNamesRaise(out.value)
               THEN Abort(Raise("AttributeError", None))
               ELSE /\ pc' = "discovery"
                    /\ UNCHANGED <<labels, mapping, results, exc, artifact>>
    /\ UNCHANGED <<args, endpoint, document, serverVars, backendVars>>

\* lines 60-67
Discovery ==
    /\ pc = "discovery"
    /\ LET payload == call_tool_payload(FreshId, args.tool,
                                        Dict([query |-> Str(args.discovery_spl)])) IN
       /\ calls' = Append(calls, payload)
       /\ \E r \in Replies(payload) :
            LET out == _rpc(r) IN
            /\ reply' = r
            /\ outcome' = out
            /\ IF out.raised THEN Abort(out)
               ELSE /\ pc' = "load"
                    /\ UNCHANGED <<labels, mapping, results, exc, artifact>>
    /\ UNCHANGED <<args, endpoint, document, serverVars, backendVars>>

\* lines 69-70: load_json raises when the file is missing or is not JSON
LoadMapping ==
    /\ pc = "load"
    /\ IF document.framing = "missing" THEN Abort(Raise("FileNotFoundError", None))
       ELSE IF document.framing = "not_json" THEN Abort(Raise("JSONDecodeError", None))
       ELSE /\ mapping' = document.doc
            /\ pc' = "export"
            /\ UNCHANGED <<labels, results, exc, artifact>>
    /\ UNCHANGED <<args, endpoint, document, calls, reply, outcome, serverVars,
                   backendVars>>

\* lines 72-77, one turn of the loop
Export ==
    /\ pc = "export"
    /\ LET label == Head(labels) IN
       IF ~IsDict(mapping)
       THEN Abort(Raise("AttributeError", None)) /\ UNCHANGED <<calls, reply, outcome>>
       ELSE LET rs == GetOr(mapping, label, List(<<>>)).a IN
            IF BuildRaises(rs)
            THEN Abort(Raise("KeyError", None)) /\ UNCHANGED <<calls, reply, outcome>>
            ELSE LET spl == build_export_spl(args.base_search, label, rs, args.n)
                     payload == call_tool_payload(FreshId, args.tool,
                                                  Dict([query |-> Str(spl)]))
                 IN  /\ calls' = Append(calls, payload)
                     /\ \E r \in Replies(payload) :
                          LET out == _rpc(r) IN
                          /\ reply' = r
                          /\ outcome' = out
                          /\ IF out.raised THEN Abort(out)
                             ELSE /\ results' = Append(results,
                                         Dict([label |-> Str(label), spl |-> Str(spl),
                                               result |-> out.value]))
                                  /\ labels' = Tail(labels)
                                  /\ pc' = IF Len(labels) > 1 THEN "export" ELSE "write"
                                  /\ UNCHANGED <<mapping, exc, artifact>>
    /\ UNCHANGED <<args, endpoint, document, serverVars, backendVars>>

\* lines 79-82
WriteOutput ==
    /\ pc = "write"
    /\ artifact' = Written(results)
    /\ pc' = "done"
    /\ UNCHANGED <<args, endpoint, document, labels, mapping, results, calls,
                   reply, outcome, exc, serverVars, backendVars>>

Next == ListTools \/ Discovery \/ LoadMapping \/ Export \/ WriteOutput

Spec == Init /\ [][Next]_vars

----------------------------------------------------------------------------
(* The export query of build_export_spl, run by the search backend: what  *)
(* each command of lines 29-34 does to the rows it is given.               *)

MaxRows == 3
MaxCap == 2
MaxTime == 2

Min(a, b) == IF a < b THEN a ELSE b

\* The rows the base search may yield.
Events ==
    [_time : 1..MaxTime, rule_name : {"C2 Beaconing", "Suspicious RDP"},
     src : {"10.0.1.10", "10.0.2.15"}, dest : {"198.51.100.22"},
     sourcetype : {"notable"}]

\* A place of each row in one fixed order of the rows.
Rank(e) ==
    4 * e._time + (IF e.rule_name = "C2 Beaconing" THEN 0 ELSE 2)
                + (IF e.src = "10.0.1.10" THEN 0 ELSE 1)

\* The results of the base search: up to MaxRows rows, some of them alike.
\* The sort leaves nothing of the order in which the search yields them (the
\* order of rows of one _time is the backend's choice), so each collection
\* of rows is listed in one order only, oldest first.
EventLists ==
    {es \in UNION {[1..k -> Events] : k \in 0..MaxRows} :
        \A i \in 1..(Len(es) - 1) : Rank(es[i]) <= Rank(es[i + 1])}

BackendRuleLists == {<<>>, <<Beaconing>>}

\* | eval label="{label}"
EvalLabel(r, label) ==
    [f \in DOMAIN r \cup {"label"} |-> IF f = "label" THEN label ELSE r[f]]

\* field IN ("v1","v2",...) on one row; a field the row lacks is null
InValues(r, rule) ==
    /\ rule.m.field.s \in DOMAIN r
    /\ \E i \in 1..Len(rule.m.values.a) : r[rule.m.field.s] = rule.m.values.a[i].s

\* | where {where_expr}
Matches(r, rs) == Len(rs) = 0 \/ \E i \in 1..Len(rs) : InValues(r, rs[i])

Filter(rs, Keep(_)) ==
    LET F[i \in 0..Len(rs)] ==
            IF i = 0 THEN <<>>
            ELSE IF Keep(rs[i]) THEN Append(F[i - 1], rs[i]) ELSE F[i - 1]
    IN  F[Len(rs)]

\* | sort 0 - _time: all the rows, newest first; the order of rows of the
\* same _time is the backend's choice.
SortedNewestFirst(rs) ==
    {[i \in 1..Len(rs) |-> rs[p[i]]] :
        p \in {q \in [1..Len(rs) -> 1..Len(rs)] :
                 /\ \A i, j \in 1..Len(rs) : i # j => q[i] # q[j]
                 /\ \A i \in 1..(Len(rs) - 1) : rs[q[i]]._time >= rs[q[i + 1]]._time}}

\* | dedup rule_name, src, dest, label: the first row of each combination
DedupFields == <<"rule_name", "src", "dest", "label">>
DedupKey(r) == [i \in 1..Len(DedupFields) |-> r[DedupFields[i]]]

DedupRows(rs) ==
    LET F[i \in 0..Len(rs)] ==
            IF i = 0 THEN <<>>
            ELSE IF \E j \in 1..(i - 1) : DedupKey(rs[j]) = DedupKey(rs[i])
                 THEN F[i - 1] ELSE Append(F[i - 1], rs[i])
    IN  F[Len(rs)]

\* | head {n}
HeadRows(rs, n) == SubSeq(rs, 1, Min(n, Len(rs)))

\* | table _time label rule_name severity src dest user host signature
TableFields ==
    {"_time", "label", "rule_name", "severity", "src", "dest", "user", "host",
     "signature"}
TableRow(r) == [f \in DOMAIN r \cap TableFields |-> r[f]]

InitBackend ==
    /\ events \in EventLists
    /\ rules \in BackendRuleLists
    /\ cap \in 1..MaxCap
    /\ stages = ExportPipeline("C2", rules, cap)
    /\ ran = [cmd |-> "search"]
    /\ before = <<>>
    /\ rows = events
    /\ request = Idle /\ response = Idle
    /\ args = Idle /\ endpoint = Idle /\ document = Idle /\ pc = Idle
    /\ labels = Idle /\ mapping = Idle /\ results = Idle /\ calls = Idle
    /\ reply = Idle /\ outcome = Idle /\ exc = Idle /\ artifact = Idle

\* The next command of the query runs on the rows of the one before it.
Run(cmd) ==
    /\ Len(stages) > 0
    /\ Head(stages).cmd = cmd
    /\ ran' = Head(stages)
    /\ stages' = Tail(stages)
    /\ before' = rows
    /\ UNCHANGED <<events, rules, cap, serverVars, harvestVars>>

RunEval ==
    /\ Run("eval")
    /\ rows' = [i \in 1..Len(rows) |-> EvalLabel(rows[i], Head(stages).label)]

RunWhere ==
    /\ Run("where")
    /\ rows' = LET Keep(r) == Matches(r, Head(stages).rules) IN Filter(rows, Keep)

RunSort ==
    /\ Run("sort")
    /\ rows' \in SortedNewestFirst(rows)

RunDedup ==
    /\ Run("dedup")
    /\ rows' = DedupRows(rows)

RunHead ==
    /\ Run("head")
    /\ rows' = HeadRows(rows, Head(stages).n)

RunTable ==
    /\ Run("table")
    /\ rows' = [i \in 1..Len(rows) |-> TableRow(rows[i])]

NextBackend == RunEval \/ RunWhere \/ RunSort \/ RunDedup \/ RunHead \/ RunTable

SpecBackend == InitBackend /\ [][NextBackend]_vars

----------------------------------------------------------------------------
(* Properties of the mock server, under SpecServer *)

\* The request handled is a JSON object.
IsObjectRequest == request.framing = "json" /\ request.doc.t = "dict"

\* The request handled is a tools/call whose params are a mapping (or are
\* left out, null or an empty list); its params.
IsToolsCall ==
    /\ IsObjectRequest
    /\ "method" \in DOMAIN request.doc.m
    /\ request.doc.m.method = Str("tools/call")
    /\ "params" \in DOMAIN request.doc.m =>
          \/ request.doc.m.params.t = "dict"
          \/ request.doc.m.params \in {None, List(<<>>)}

CallParams ==
    IF "params" \in DOMAIN request.doc.m /\ request.doc.m.params.t = "dict"
    THEN request.doc.m.params.m ELSE <<>>

CallName == IF "name" \in DOMAIN CallParams THEN CallParams.name ELSE None

CallId == IF "id" \in DOMAIN request.doc.m THEN request.doc.m.id ELSE None

\* The text by which an error message names a tool.
NameText(name) ==
    CASE name.t = "str" -> name.s
      [] name.t = "null" -> "None"
      [] name.t = "num" -> IntStr(name.n)

\* C1: a tools/call whose params.name is not the registered tool name (a
\* missing name included) is answered with a JSON-RPC error response of code
\* -32602 whose message names the offending tool, and the client's call_tool,
\* given that response, raises the RPC error carrying that code and message
\* instead of returning a value.
C1_UnknownToolIsRpcError ==
    (IsToolsCall /\ CallName # Str("run_splunk_query")) =>
        /\ response.sent
        /\ response.status = 200
        /\ response.body.t = "dict"
        /\ DOMAIN response.body.m = {"jsonrpc", "id", "error"}
        /\ response.body.m.id = CallId
        /\ response.body.m.error =
               Dict([code |-> Num(-32602),
                     message |-> Str("Unknown tool: " \o NameText(CallName))])
        /\ _rpc(response).raised
        /\ _rpc(response).error = "RuntimeError"
        /\ _rpc(response).detail.m.code = Num(-32602)
        /\ Contains(NameText(CallName), _rpc(response).detail.m.message.s)

\* C1's case: a tools/call for the tool delete_index was answered, and the
\* client raises on the answer.
C1_Witness ==
    /\ IsToolsCall
    /\ CallName = Str("delete_index")
    /\ response.sent
    /\ response.body.m.error.m.message = Str("Unknown tool: delete_index")
    /\ _rpc(response).raised

\* C2: a POST body that is no well-formed request (not parseable as JSON,
\* empty, or JSON that is not an object) is answered with HTTP 400 and a
\* plain JSON diagnostic that is no JSON-RPC envelope; it is never answered
\* with HTTP 200 and never left unanswered.
C2_MalformedBodyGets400 ==
    (\/ request.framing \in {"bad_content_length", "bad_utf8", "not_json", "empty"}
     \/ (request.framing = "json" /\ request.doc.t # "dict")) =>
        /\ response.sent
        /\ response.status = 400
        /\ response.body.t = "dict"
        /\ "jsonrpc" \notin DOMAIN response.body.m

\* Two characters that are the same letter, whatever their case.
SameLetter(a, b) ==
    \/ a = b
    \/ \E k \in 1..Len(UpperLetters) :
           {a, b} = {CharAt(UpperLetters, k), CharAt(LowerLetters, k)}

\* p occurs in text, letter case ignored.
OccursIgnoringCase(p, text) ==
    \E i \in 1..(Len(text) - Len(p) + 1) :
        \A j \in 1..Len(p) : SameLetter(CharAt(text, i + j - 1), CharAt(p, j))

\* The request handled is a tools/call on the registered tool whose query is
\* a text, or is missing, null or empty; that text.
IsQueryCall ==
    /\ IsToolsCall
    /\ CallName = Str("run_splunk_query")
    /\ "arguments" \in DOMAIN CallParams =>
          \/ CallParams.arguments.t = "null"
          \/ /\ CallParams.arguments.t = "dict"
             /\ "query" \in DOMAIN CallParams.arguments.m =>
                   \/ CallParams.arguments.m.query.t \in {"str", "null"}
                   \/ CallParams.arguments.m.query = Num(0)

QueryText ==
    IF /\ "arguments" \in DOMAIN CallParams
       /\ CallParams.arguments.t = "dict"
       /\ "query" \in DOMAIN CallParams.arguments.m
       /\ CallParams.arguments.m.query.t = "str"
    THEN CallParams.arguments.m.query.s ELSE ""

----------------------------------------------------------------------------
(* Properties of a harvest run, under Spec *)

\* The last request got a response with a success status and a JSON body.
ReceivedBody ==
    /\ Len(calls) > 0
    /\ reply.sent
    /\ reply.status = 200
    /\ reply.body # Garbage

\* C3: the client enforces that a decoded response has exactly one of
\* result and error: list_tools and call_tool return a value only when the
\* body is a JSON object with a result member and no error member, and raise
\* the RPC error for every other body received (error present, both present,
\* neither present, or no JSON object).
C3_ExactlyOneOfResultAndError ==
    ReceivedBody =>
        IF /\ reply.body.t = "dict"
           /\ "result" \in DOMAIN reply.body.m
           /\ "error" \notin DOMAIN reply.body.m
        THEN outcome = Return(reply.body.m.result)
        ELSE outcome.raised /\ outcome.error = "RuntimeError"

\* The mapping document holds a rule without its field or its values key.
MalformedRule(rule) == ~({"field", "values"} \subseteq DOMAIN rule.m)

MalformedDocument ==
    /\ document.framing = "json"
    /\ document.doc.t = "dict"
    /\ \E label \in DOMAIN document.doc.m :
          \E i \in 1..Len(document.doc.m[label].a) :
              MalformedRule(document.doc.m[label].a[i])

\* C4: a run whose mapping document holds a malformed rule fails before any
\* network call (tools/list, the discovery probe, an export tools/call) has
\* been issued.
C4_ConfigErrorBeforeAnyCall ==
    MalformedDocument => Len(calls) = 0

\* The query text of the i-th request of the run.
QueryOf(i) == calls[i].m.params.m.arguments.m.query.s

\* The rules the mapping gives the label of the i-th request (i >= 3).
RulesOf(i) ==
    IF Labels[i - 2] \in DOMAIN mapping.m THEN mapping.m[Labels[i - 2]].a ELSE <<>>

\* C6: for every rule set the builder accepts, the empty one and rules with
\* no values included, the filter after `where` is true() exactly when the
\* rule set is empty, and is otherwise the OR, in rule order, of one
\* parenthesized clause `field IN (quoted-value-list)` per rule, each with a
\* non-empty value list; it is never empty or malformed.
C6_FilterIsWellFormed ==
    \A i \in 3..Len(calls) :
        /\ Contains("\n| where " \o WhereExpr(RulesOf(i)) \o "\n| sort", QueryOf(i))
        /\ Contains("\n| where true()\n", QueryOf(i)) <=> Len(RulesOf(i)) = 0
        /\ ~Contains("\n| where \n", QueryOf(i))
        /\ ~Contains(" IN ()", QueryOf(i))

\* The i-th request of a run is the one main() sends i-th.
IsExpectedCall(i) ==
    /\ calls[i].m.jsonrpc = Str("2.0")
    /\ IF i = 1
       THEN /\ calls[i].m.method = Str("tools/list")
            /\ calls[i].m.params = EmptyDict
       ELSE /\ calls[i].m.method = Str("tools/call")
            /\ calls[i].m.params.m.name = Str(args.tool)
            /\ DOMAIN calls[i].m.params.m.arguments.m = {"query"}
            /\ IF i = 2
               THEN QueryOf(i) = args.discovery_spl
               ELSE Contains("\n| eval label=\"" \o Labels[i - 2] \o "\"\n", QueryOf(i))

C9_State ==
    /\ Len(calls) <= 2 + Len(Labels)
    /\ \A i \in 1..Len(calls) : IsExpectedCall(i)
    /\ \A i, j \in 1..Len(calls) : i # j => calls[i].m.id # calls[j].m.id
    /\ outcome.raised => pc = "raised" /\ exc = outcome
    /\ exc.raised <=> pc = "raised"
    /\ pc = "raised" => ~artifact.written
    /\ artifact.written =>
          /\ pc = "done"
          /\ Len(calls) = 2 + Len(Labels)
          /\ artifact.content = results
          /\ Len(artifact.content) = Len(Labels)
          /\ \A i \in 1..Len(Labels) :
                /\ DOMAIN artifact.content[i].m = {"label", "spl", "result"}
                /\ artifact.content[i].m.label = Str(Labels[i])
                /\ artifact.content[i].m.spl = Str(QueryOf(i + 2))

C9_Step ==
    /\ Len(calls') <= Len(calls) + 1
    /\ SubSeq(calls', 1, Len(calls)) = calls
    /\ pc = "raised" => UNCHANGED <<calls, results, artifact>>
    /\ artifact.written => UNCHANGED artifact

\* C9: the harvester issues its calls one after another in program order
\* (tools/list, the discovery probe, one export tools/call per label in the
\* order C2, EXFIL, LATERAL) and aborts the run on the first failing call:
\* after a failure no further call is issued and no output is written; the
\* output, when written, holds one {label, spl, result} entry per label, in
\* processing order.
C9_SequentialAndAbortOnFailure == [](C9_State) /\ [][C9_Step]_vars

\* C9's case: the export call for EXFIL, the fourth call of the run, failed
\* after the export for C2 had returned.
C9_Witness ==
    /\ pc = "raised"
    /\ outcome.raised
    /\ Len(calls) = 4
    /\ Len(results) = 1
    /\ ~artifact.written

\* C10: every export query of the builder, sent through tools/call to the
\* mock server, is answered with the export row set (query_kind "export", 3
\* rows), never with the discovery-probe or the field-summary row set.
C10_ExportQueryGetsExportRows ==
    (endpoint = "mock" /\ args.base_search = "index=notable earliest=-90d"
     /\ args.n > 0) =>
        \A i \in 1..Len(results) :
            /\ results[i].m.result.m.query_kind = Str("export")
            /\ Len(results[i].m.result.m.rows.a) = 3

----------------------------------------------------------------------------
(* Properties of the export query run on rows, under SpecBackend *)

\* The rows of the base search the filter of the query lets through.
IsCandidate(e) ==
    \/ rules = <<>>
    \/ \E i \in 1..Len(rules) :
           \E j \in 1..Len(rules[i].m.values.a) :
               e[rules[i].m.field.s] = rules[i].m.values.a[j].s

Candidates == {i \in 1..Len(events) : IsCandidate(events[i])}

\* The dedup tuple of a row; the label is the one the query tags all rows with.
Tuple(r) == <<r.rule_name, r.src, r.dest>>

CandidateTuples == {Tuple(events[i]) : i \in Candidates}

\* The latest timestamp among the candidates of tuple k.
Latest(k) ==
    CHOOSE t \in 1..MaxTime :
        /\ \E i \in Candidates : Tuple(events[i]) = k /\ events[i]._time = t
        /\ \A i \in Candidates : Tuple(events[i]) = k => events[i]._time <= t

Finished == stages = <<>> /\ ran # [cmd |-> "search"]

\* C7: for every set of candidate rows larger than the cap, exactly cap rows
\* are retained, and they are the highest-timestamp rows.
C7_ExactlyCapHighestRows ==
    (Finished /\ Cardinality(Candidates) > cap) =>
        /\ Len(rows) = cap
        /\ \A k \in 1..Len(rows) :
              Cardinality({i \in Candidates : events[i]._time > rows[k]._time}) < cap

\* C7 as amended: the rows retained are min(cap, number of distinct dedup
\* tuples among the candidates) many, exactly cap when there are more than
\* cap distinct tuples; each is the latest row of its tuple, and no tuple left
\* out has a later latest row than a retained one.
C7_CapOverDedupedRows ==
    Finished =>
        /\ Len(rows) = Min(cap, Cardinality(CandidateTuples))
        /\ Cardinality(CandidateTuples) > cap => Len(rows) = cap
        /\ \A i, j \in 1..Len(rows) : i # j => Tuple(rows[i]) # Tuple(rows[j])
        /\ \A i \in 1..Len(rows) :
              /\ Tuple(rows[i]) \in CandidateTuples
              /\ rows[i]._time = Latest(Tuple(rows[i]))
              /\ rows[i].label = "C2"
        /\ \A i \in 1..(Len(rows) - 1) : rows[i]._time >= rows[i + 1]._time
        /\ \A k \in CandidateTuples :
              (\A i \in 1..Len(rows) : Tuple(rows[i]) # k) =>
                  \A i \in 1..Len(rows) : Latest(k) <= rows[i]._time

\* C7's case: more distinct tuples than the cap, some tuple with several
\* candidates, and the query has run.
C7_Witness ==
    /\ Finished
    /\ Cardinality(CandidateTuples) > cap
    /\ Cardinality(Candidates) > Cardinality(CandidateTuples)
    /\ Len(rows) = cap

\* C8: the sort newest-first always precedes the dedup, so of the rows that
\* share a (rule_name, src, dest, label) tuple exactly one survives the
\* dedup and it is one with the latest timestamp; no row of a distinct tuple
\* is removed.
C8_DedupKeepsLatest ==
    ran.cmd = "dedup" =>
        /\ \A i \in 1..Len(stages) : stages[i].cmd # "sort"
        /\ \A i \in 1..Len(before) :
              Cardinality({j \in 1..Len(rows) : DedupKey(rows[j]) = DedupKey(before[i])}) = 1
        /\ \A j \in 1..Len(rows) :
              /\ \E i \in 1..Len(before) : before[i] = rows[j]
              /\ \A i \in 1..Len(before) :
                    DedupKey(before[i]) = DedupKey(rows[j]) =>
                        before[i]._time <= rows[j]._time

\* C8's case: two rows of the same tuple and different timestamps reached
\* the dedup, which removed one of them and kept a row of another tuple.
C8_Witness ==
    /\ ran.cmd = "dedup"
    /\ \E i, j \in 1..Len(before) :
          /\ DedupKey(before[i]) = DedupKey(before[j])
          /\ before[i]._time # before[j]._time
    /\ Len(rows) < Len(before)
    /\ Len(rows) > 1

====
